---- MODULE Spec2Model ----
(***************************************************************************)
(* Model of apps/ai/main.py: the FastAPI "AI Verification Service".        *)
(*   GET  /health -> {"ok": True}                                          *)
(*   POST /verify -> VerificationResult derived from sha256(file bytes)    *)
(*                                                                         *)
(* score_human is a Python float (IEEE-754 binary64).  It is modelled      *)
(* bit-exactly: a float is its unbiased exponent and its 52 fraction bits  *)
(* held as four 13-bit limbs, and the division raw / 65535.0 is a long     *)
(* division rounded to nearest, ties to even.  The literals 0.30 and 0.60  *)
(* are the correctly rounded values of 3/10 and 6/10.                      *)
(***************************************************************************)
EXTENDS Integers, Sequences, FiniteSets, TLC

VARIABLES
    reqs,         \* request id -> the request and the position of its handler
    resp,         \* request id -> the response sent for it (NoResponse until then)
    h,            \* scoring run: first two bytes of the digest
    score_human,  \* scoring run: local score_human of verify
    verdict,      \* scoring run: local verdict of verify
    result,       \* scoring run: the VerificationResult returned
    stage         \* scoring run: position in lines 35-50

vars == <<reqs, resp, h, score_human, verdict, result, stage>>

serverVars == <<reqs, resp>>

scoreVars == <<h, score_human, verdict, result, stage>>

(* ----------------------------------------------------------------------- *)
(* IEEE-754 binary64 arithmetic used by line 35 and lines 38-40            *)
(* ----------------------------------------------------------------------- *)

\* 52 fraction bits = FracLimbs limbs of 13 bits each (LimbBase = 2^13)
LimbBase == 8192

FracLimbs == 4

\* exponent field of +0.0 (biased exponent 0), below every normal exponent
ZeroExp == -1023

FloatZero == [exp |-> ZeroExp, frac |-> <<0, 0, 0, 0>>]

FloatOne == [exp |-> 0, frac |-> <<0, 0, 0, 0>>]

\* scale n up by powers of two until d <= n (n > 0, n <= d on entry)
RECURSIVE ScaleUp(_, _, _)
ScaleUp(n, d, e) ==
    IF n >= d THEN <<n, e>> ELSE ScaleUp(2 * n, d, e - 1)

\* k limbs of the binary expansion of r/d (r < d), and the last remainder
RECURSIVE LongDiv(_, _, _)
LongDiv(r, d, k) ==
    IF k = 0 THEN << <<>>, r >>
    ELSE LET q    == (r * LimbBase) \div d
             rr   == (r * LimbBase) % d
             rest == LongDiv(rr, d, k - 1)
         IN  << <<q>> \o rest[1], rest[2] >>

\* add one unit in the last place; second component is the carry out
RECURSIVE Incr(_)
Incr(l) ==
    IF l = <<>> THEN << <<>>, 1 >>
    ELSE LET n    == Len(l)
             last == l[n]
             head == SubSeq(l, 1, n - 1)
         IN  IF last + 1 < LimbBase
             THEN << Append(head, last + 1), 0 >>
             ELSE LET up == Incr(head) IN << Append(up[1], 0), up[2] >>

\* the binary64 nearest to n/d, round-half-to-even (0 <= n <= d, d > 0)
FloatDiv(n, d) ==
    IF n = 0 THEN FloatZero
    ELSE LET s   == ScaleUp(n, d, 0)
             ld  == LongDiv(s[1] - d, d, FracLimbs)
             rem == ld[2]
             up  == \/ 2 * rem > d
                    \/ 2 * rem = d /\ ld[1][FracLimbs] % 2 = 1
             inc == Incr(ld[1])
         IN  IF ~up THEN [exp |-> s[2], frac |-> ld[1]]
             ELSE IF inc[2] = 1
                  THEN [exp |-> s[2] + 1, frac |-> inc[1]]
                  ELSE [exp |-> s[2], frac |-> inc[1]]

\* a < b on non-negative binary64 values
RECURSIVE SeqLess(_, _)
SeqLess(a, b) ==
    IF a = <<>> \/ b = <<>> THEN FALSE
    ELSE IF a[1] # b[1] THEN a[1] < b[1]
    ELSE SeqLess(Tail(a), Tail(b))

FloatLess(a, b) ==
    IF a.exp # b.exp THEN a.exp < b.exp ELSE SeqLess(a.frac, b.frac)

(* ----------------------------------------------------------------------- *)
(* The scoring of verify, lines 33-43                                      *)
(* ----------------------------------------------------------------------- *)

Byte == 0..255

ScoreDivisor == 65535

\* the float literals of lines 38 and 40
BlockThreshold == FloatDiv(30, 100)

ReviewThreshold == FloatDiv(60, 100)

\* mutants of Raw: the two bytes taken in the other order; the low byte dropped
RawLittleEndian(d) == d[2] * 256 + d[1]

RawHighByteOnly(d) == d[1] * 256

\* h[0] * 256 + h[1]
Raw(d) == d[1] * 256 + d[2]

\* mutant of ScoreHuman: normalised by 2^16 instead of 2^16 - 1
ScoreHumanPow2(d) == FloatDiv(Raw(d), ScoreDivisor + 1)

\* score_human = (h[0] * 256 + h[1]) / 65535.0
ScoreHuman(d) == FloatDiv(Raw(d), ScoreDivisor)

\* mutants of VerdictOf: <= in place of <; the two tests in the other order
VerdictOfInclusive(score) ==
    IF ~FloatLess(BlockThreshold, score) THEN "block"
    ELSE IF ~FloatLess(ReviewThreshold, score) THEN "review"
    ELSE "pass"

VerdictOfReviewFirst(score) ==
    IF FloatLess(score, ReviewThreshold) THEN "review"
    ELSE IF FloatLess(score, BlockThreshold) THEN "block"
    ELSE "pass"

\* the if / elif / else of lines 38-43
VerdictOf(score) ==
    IF FloatLess(score, BlockThreshold) THEN "block"
    ELSE IF FloatLess(score, ReviewThreshold) THEN "review"
    ELSE "pass"

\* mutant of MakeResult: explanations left empty
MakeResultNoExplanations(score, v) ==
    [ model_version |-> "baseline-0.0.1",
      score_human   |-> score,
      verdict       |-> v,
      explanations  |-> <<>> ]

\* VerificationResult(...) of lines 45-50
MakeResult(score, v) ==
    [ model_version |-> "baseline-0.0.1",
      score_human   |-> score,
      verdict       |-> v,
      explanations  |-> <<"Deterministic placeholder score for prototype">> ]

\* mutant of Sha256Prefix: one hasher object shared by all requests, so an
\* empty upload hashes the bytes an earlier request left in it
Sha256PrefixShared(data) ==
    LET left == { reqs[id].data : id \in { j \in DOMAIN reqs :
                                            /\ resp[j].kind = "result"
                                            /\ reqs[j].data # <<>> } }
        of(x) == CASE x = <<>>        -> <<227, 176>>
                   [] x = <<68, 176>> -> <<76, 204>>
                   [] x = <<83, 138>> -> <<153, 153>>
                   [] x = <<3, 55>>   -> <<76, 205>>
                   [] x = <<68>>      -> <<63, 57>>
                   [] x = <<83>>      -> <<141, 224>>
                   [] x = <<3>>       -> <<8, 79>>
    IN  IF data = <<>> /\ left # {} THEN of(CHOOSE x \in left : TRUE)
        ELSE of(data)

\* hashlib.sha256(data).digest()[0:2] on the uploads of the model
\* (the values are those of SHA-256)
Sha256Prefix(data) ==
    CASE data = <<>>        -> <<227, 176>>
      [] data = <<68, 176>> -> <<76, 204>>
      [] data = <<83, 138>> -> <<153, 153>>
      [] data = <<3, 55>>   -> <<76, 205>>
      [] data = <<68>>      -> <<63, 57>>
      [] data = <<83>>      -> <<141, 224>>
      [] data = <<3>>       -> <<8, 79>>

\* uploaded byte sequences: the empty file, and files whose digests put
\* raw at 19660, 19661 and 39321
Files == { <<>>, <<68, 176>>, <<3, 55>>, <<83, 138>> }

\* lines 33-50: everything verify does after the read has returned
Verify(data) ==
    LET hh == Sha256Prefix(data)
        s  == ScoreHuman(hh)
    IN  MakeResult(s, VerdictOf(s))

\* mutant of HealthBody: health reports earlier failures
HealthBodyDegraded == [ok |-> \A id \in DOMAIN resp : resp[id].kind # "server_error"]

\* return value of health, line 26
HealthBody == [ok |-> TRUE]

(* ----------------------------------------------------------------------- *)
(* The service: requests dispatched by the framework, lines 24-50          *)
(* ----------------------------------------------------------------------- *)

MaxRequests == 3

Ids == 1..MaxRequests

NoResponse == [kind |-> "none"]

IdleRequest ==
    [ pc |-> "idle", route |-> "none", hasFile |-> FALSE, body |-> <<>>,
      received |-> 0, data |-> <<>>, steps |-> <<>> ]

\* mutant of FilePartValid: the file part declared optional
FilePartOptional(r) == TRUE

\* File(...): the file part is required
FilePartValid(r) == r.hasFile

\* mutant of ReadComplete: the read returns with the first bytes available
ReadCompleteEarly(r) == r.received >= 1 \/ Len(r.body) = 0

\* await file.read() returns once the whole upload is available
ReadComplete(r) == r.received = Len(r.body)

\* what file.read() returns
ReadData(r) == SubSeq(r.body, 1, r.received)

\* a client sends GET /health, or POST /verify with or without a file part
Arrive(id, route, hasFile, body) ==
    /\ reqs[id].pc = "idle"
    /\ \A j \in Ids : j < id => reqs[j].pc # "idle"
    /\ reqs' = [reqs EXCEPT ![id] =
                   [ IdleRequest EXCEPT !.pc = "routed", !.route = route,
                                        !.hasFile = hasFile, !.body = body ]]
    /\ UNCHANGED <<resp, scoreVars>>

\* health(), lines 24-26
Health(id) ==
    /\ reqs[id].pc = "routed"
    /\ reqs[id].route = "health"
    /\ reqs' = [reqs EXCEPT ![id].pc = "done",
                            ![id].steps = Append(@, "health")]
    /\ resp' = [resp EXCEPT ![id] = [kind |-> "health", body |-> HealthBody]]
    /\ UNCHANGED scoreVars

\* request validation of the parameters declared on line 30
Validate(id) ==
    /\ reqs[id].pc = "routed"
    /\ reqs[id].route = "verify"
    /\ IF FilePartValid(reqs[id])
       THEN /\ reqs' = [reqs EXCEPT ![id].pc = "reading",
                                    ![id].steps = Append(@, "validate")]
            /\ UNCHANGED resp
       ELSE /\ reqs' = [reqs EXCEPT ![id].pc = "rejected",
                                    ![id].steps = Append(@, "validate")]
            /\ resp' = [resp EXCEPT ![id] = [kind |-> "client_error"]]
    /\ UNCHANGED scoreVars

\* line 32, suspended: one more byte of the upload becomes available
ReadChunk(id) ==
    /\ reqs[id].pc = "reading"
    /\ reqs[id].received < Len(reqs[id].body)
    /\ reqs' = [reqs EXCEPT ![id].received = @ + 1]
    /\ UNCHANGED <<resp, scoreVars>>

\* line 32, suspended: the read raises or the request is cancelled (client
\* disconnect, host deadline); verify has no handler, so the request fails
ReadAbort(id) ==
    /\ reqs[id].pc = "reading"
    /\ reqs' = [reqs EXCEPT ![id].pc = "failed",
                            ![id].steps = Append(@, "read_failed")]
    /\ resp' = [resp EXCEPT ![id] = [kind |-> "server_error"]]
    /\ UNCHANGED scoreVars

\* lines 32-50: the read returns and verify runs to its return
VerifyReturn(id) ==
    /\ reqs[id].pc = "reading"
    /\ ReadComplete(reqs[id])
    /\ LET bytes == ReadData(reqs[id])
       IN  /\ reqs' = [reqs EXCEPT ![id].pc = "done",
                                   ![id].data = bytes,
                                   ![id].steps = @ \o <<"read", "hash", "score",
                                                        "verdict", "return">>]
           /\ resp' = [resp EXCEPT ![id] =
                          [kind |-> "result", body |-> Verify(bytes)]]
    /\ UNCHANGED scoreVars

Init ==
    /\ reqs = [id \in Ids |-> IdleRequest]
    /\ resp = [id \in Ids |-> NoResponse]
    /\ h = <<0, 0>>
    /\ score_human = FloatZero
    /\ verdict = "none"
    /\ result = NoResponse
    /\ stage = "off"

Next ==
    \/ \E id \in Ids : Arrive(id, "health", FALSE, <<>>)
    \/ \E id \in Ids : Arrive(id, "verify", FALSE, <<>>)
    \/ \E id \in Ids, body \in Files : Arrive(id, "verify", TRUE, body)
    \/ \E id \in Ids : Health(id)
    \/ \E id \in Ids : Validate(id)
    \/ \E id \in Ids : ReadChunk(id)
    \/ \E id \in Ids : ReadAbort(id)
    \/ \E id \in Ids : VerifyReturn(id)

Spec == Init /\ [][Next]_vars

(* ----------------------------------------------------------------------- *)
(* The scoring run: lines 35-50 on every possible digest prefix            *)
(* ----------------------------------------------------------------------- *)

\* line 35
ScoreStep ==
    /\ stage = "hashed"
    /\ score_human' = ScoreHuman(h)
    /\ stage' = "scored"
    /\ UNCHANGED <<h, verdict, result, serverVars>>

\* lines 38-43
VerdictStep ==
    /\ stage = "scored"
    /\ verdict' = VerdictOf(score_human)
    /\ stage' = "judged"
    /\ UNCHANGED <<h, score_human, result, serverVars>>

\* lines 45-50
ReturnStep ==
    /\ stage = "judged"
    /\ result' = MakeResult(score_human, verdict)
    /\ stage' = "returned"
    /\ UNCHANGED <<h, score_human, verdict, serverVars>>

InitScore ==
    /\ reqs = [id \in Ids |-> IdleRequest]
    /\ resp = [id \in Ids |-> NoResponse]
    /\ h \in Byte \X Byte
    /\ score_human = FloatZero
    /\ verdict = "none"
    /\ result = NoResponse
    /\ stage = "hashed"

NextScore == ScoreStep \/ VerdictStep \/ ReturnStep

SpecScore == InitScore /\ [][NextScore]_vars

(* ----------------------------------------------------------------------- *)
(* Properties                                                              *)
(* ----------------------------------------------------------------------- *)

Judged == stage \in {"judged", "returned"}

Results == { id \in Ids : resp[id].kind = "result" }

C2_Raw19660IsReview ==
    \A id \in Results :
        Sha256Prefix(reqs[id].data) = <<76, 204>> =>
            resp[id].body.verdict = "review"

\* C2 amended: an upload whose digest starts 0x4C 0xCC (raw = 19660) is
\* classified "block", its score being below 0.30; the one whose digest
\* starts 0x4C 0xCD (raw = 19661) is the one classified "review".
C2_Raw19660IsBlock ==
    \A id \in Results :
        /\ Sha256Prefix(reqs[id].data) = <<76, 204>> =>
               /\ resp[id].body.verdict = "block"
               /\ FloatLess(resp[id].body.score_human, BlockThreshold)
        /\ Sha256Prefix(reqs[id].data) = <<76, 205>> =>
               /\ resp[id].body.verdict = "review"
               /\ FloatLess(BlockThreshold, resp[id].body.score_human)

C2_Witness ==
    \E id \in Results :
        /\ reqs[id].body = <<68, 176>>
        /\ Sha256Prefix(reqs[id].data) = <<76, 204>>
        /\ resp[id].body.verdict = "block"

\* C3: for every pair of leading digest bytes raw is in 0..65535 and
\* 0.0 <= score_human <= 1.0; score_human is 0 only when both bytes are 0
\* and 1 only when both are 255.
C3_ScoreRange ==
    stage # "hashed" =>
        /\ Raw(h) \in 0..65535
        /\ ~FloatLess(score_human, FloatZero)
        /\ ~FloatLess(FloatOne, score_human)
        /\ score_human = FloatZero => h = <<0, 0>>
        /\ score_human = FloatOne => h = <<255, 255>>

C3_Witness ==
    /\ stage = "scored"
    /\ h = <<255, 254>>
    /\ FloatLess(score_human, FloatOne)
    /\ FloatLess(FloatZero, score_human)

\* C4: any two verify requests carrying the same bytes are answered with
\* the same score_human and the same verdict, whatever other requests were
\* handled before, between or interleaved with them.
C4_Deterministic ==
    \A i \in Results, j \in Results :
        reqs[i].body = reqs[j].body =>
            /\ resp[i].body.score_human = resp[j].body.score_human
            /\ resp[i].body.verdict = resp[j].body.verdict

C4_Witness ==
    \E i \in Results, j \in Results, k \in Ids :
        /\ i < k /\ k < j
        /\ reqs[i].body = reqs[j].body
        /\ resp[i].body = resp[j].body
        /\ \/ resp[k].kind = "server_error"
           \/ k \in Results /\ resp[k].body.verdict # resp[i].body.verdict

\* C5: whatever requests came before, a health request is answered with
\* exactly {"ok": true}, and answering it changes nothing of any other
\* request or response.
C5_HealthAlwaysOk ==
    [][ \A id \in Ids :
          (reqs[id].route = "health" /\ reqs[id].pc = "routed"
                                     /\ reqs'[id].pc = "done") =>
              /\ resp'[id] = [kind |-> "health", body |-> [ok |-> TRUE]]
              /\ \A j \in Ids \ {id} : reqs'[j] = reqs[j] /\ resp'[j] = resp[j]
              /\ scoreVars' = scoreVars ]_vars

C5_Witness ==
    \E id \in Ids, i \in Ids, j \in Ids :
        /\ i < id /\ j < id
        /\ resp[id] = [kind |-> "health", body |-> [ok |-> TRUE]]
        /\ resp[i].kind = "server_error"
        /\ resp[j].kind = "result"

\* C6: digest bytes 0x00 0x00 give score_human = 0.0 and verdict "block";
\* digest bytes 0xFF 0xFF give score_human = 1.0 and verdict "pass".
C6_Extremes ==
    stage = "returned" =>
        /\ h = <<0, 0>> =>
               result.score_human = FloatZero /\ result.verdict = "block"
        /\ h = <<255, 255>> =>
               result.score_human = FloatOne /\ result.verdict = "pass"

C6_Witness ==
    /\ stage = "returned"
    /\ h = <<255, 255>>
    /\ result.verdict = "pass"

\* C7: every successful verify response, the one for the empty upload
\* included, has model_version "baseline-0.0.1", a score_human, a verdict
\* among "block", "review", "pass", and exactly one explanation string.
C7_WellFormed ==
    \A id \in Results :
        LET r == resp[id].body
        IN  /\ DOMAIN r = {"model_version", "score_human", "verdict",
                           "explanations"}
            /\ r.model_version = "baseline-0.0.1"
            /\ ~FloatLess(r.score_human, FloatZero)
            /\ ~FloatLess(FloatOne, r.score_human)
            /\ r.verdict \in {"block", "review", "pass"}
            /\ Len(r.explanations) = 1
            /\ r.explanations[1] \in STRING

C7_Witness ==
    \E id \in Results :
        /\ reqs[id].body = <<>>
        /\ reqs[id].data = <<>>
        /\ resp[id].body.verdict = "pass"

\* C8: a verify request without the file part is answered with a client
\* error by validation; none of read, hash, score, verdict or return runs
\* for it and it gets no VerificationResult.
C8_MissingFileRejected ==
    \A id \in Ids :
        (reqs[id].route = "verify" /\ ~reqs[id].hasFile) =>
            /\ reqs[id].pc \in {"routed", "rejected"}
            /\ reqs[id].steps \in {<<>>, <<"validate">>}
            /\ resp[id].kind \in {"none", "client_error"}
            /\ reqs[id].pc = "rejected" <=> resp[id].kind = "client_error"

C8_Witness ==
    \E id \in Ids :
        /\ reqs[id].route = "verify"
        /\ ~reqs[id].hasFile
        /\ reqs[id].pc = "rejected"
        /\ resp[id].kind = "client_error"

\* C9: a VerificationResult is returned only after the read delivered the
\* whole body, and is computed from the whole body; a request whose read
\* failed or was cut off has failed and has no VerificationResult.
C9_ReadBeforeHash ==
    \A id \in Ids :
        /\ resp[id].kind = "result" =>
               /\ reqs[id].received = Len(reqs[id].body)
               /\ reqs[id].data = reqs[id].body
               /\ reqs[id].steps = <<"validate", "read", "hash", "score",
                                     "verdict", "return">>
               /\ resp[id].body = Verify(reqs[id].body)
        /\ reqs[id].pc = "failed" =>
               /\ resp[id].kind = "server_error"
               /\ reqs[id].steps = <<"validate", "read_failed">>

C9_Witness ==
    \E id \in Ids :
        /\ reqs[id].pc = "failed"
        /\ 0 < reqs[id].received
        /\ reqs[id].received < Len(reqs[id].body)
        /\ resp[id].kind = "server_error"

VerdictRank(v) == CASE v = "block" -> 0 [] v = "review" -> 1 [] v = "pass" -> 2

====
